---- MODULE Spec2Model ----
(***************************************************************************)
(* Signaling server of nickonindia-chat (server/src/server.ts): the Redis  *)
(* waiting pool, the pairing done by the 'join' handler, the per-replica   *)
(* room / transport / peer-to-room maps, and the socket.io emissions.      *)
(*                                                                         *)
(* Several replicas run the same server.ts.  The Redis list 'waiting_pool' *)
(* and the socket.io Redis adapter are shared; the maps rooms, transports  *)
(* and peerRooms are module-level constants of one process, so each        *)
(* replica has its own.  Every `await` of a handler is a point where other *)
(* handlers run, so a handler is one action per stretch between awaits.    *)
(***************************************************************************)
EXTENDS Integers, Sequences, FiniteSets, TLC

\* ---- bounds of the model
NPeers == 4
NReplicas == 2
MaxSockets == 2
MaxJoins == 2
MaxTransports == 2
MaxProducers == 2
MaxConsumers == 1
MaxRequests == 2

Peers == 1..NPeers
Replicas == 1..NReplicas
SessionPeers == 1..MaxSockets
Kinds == {"audio", "video"}

\* the absent value: rPop's null, Map.get's undefined
None == 0
NoRoom == <<>>

VARIABLES
    sock,        \* sock[p]: "new" | "open" | "closed", the socket of client p
    host,        \* host[p]: the replica the socket is connected to (None before)
    sids,        \* sids[p]: the socket.io rooms socket p is in (adapter state)
    pool,        \* the Redis list waiting_pool, head (left) first
    enqOrder,    \* the LPUSH commands Redis has executed, in order
    joins,       \* joins[p]: join events socket p has sent
    jpc,         \* jpc[p]: where p's join handler stands
    peer1Id,     \* peer1Id[p], peer2Id[p]: the handler's locals (None outside it)
    peer2Id,
    dpc,         \* dpc[p]: where p's disconnect handler stands
    rooms,       \* rooms[r]: keys of replica r's rooms map
    peerRooms,   \* peerRooms[r][p]: replica r's peerRooms map
    transports,  \* transports[r]: replica r's transports map, as records
    transportIds,\* ids the engine has given to transports so far (ids are fresh)
    producers,   \* the producers the engine created, as records
    events,      \* events[p]: the events delivered to client p, in order
    replies,     \* replies[p]: the acknowledgements sent to client p, in order
    requests,    \* requests[p]: the media requests client p has sent, in order,
                 \* by event name
    consumeArgs, \* the arguments of the consume request handled last
    consumers,   \* the consumers the engine created, as records
    resumeRequests, \* ids named in the resume-consumer events handled so far
    store,       \* store[r]: replica r's pubClient and subClient connections
    worker,      \* worker[r]: replica r's mediasoup worker
    listening,   \* listening[r]: replica r's httpServer accepts connections
    cpc,         \* cpc[p]: the request client p's 'matched' handler awaits
    seen,        \* seen[p]: the events of events[p] client p has handled
    connectionState, \* connectionState[p]: the client's connectionState.current
    status,      \* the status state of the VideoChat component of one browser tab
    rendered,    \* the status that tab's last render showed (its mounted buttons)
    timers,      \* that tab's pending setTimeout(connect, 3000) timers
    current,     \* that tab's connectionState.current.socket (None: null)
    startedBy,   \* startedBy[p]: who called the connect() that created socket p,
                 \* and how many reconnect timers were pending at that call
    connects     \* that tab's connect() calls awaiting getUserMedia, as such
                 \* records, in call order

vars == <<sock, host, sids, pool, enqOrder, joins, jpc, peer1Id,
          peer2Id, dpc, rooms, peerRooms, transports, transportIds, producers,
          events, replies, requests, consumeArgs, consumers,
          resumeRequests, store, worker, listening, cpc, seen, connectionState,
          status, rendered, timers, current, startedBy, connects>>

poolVars == <<pool, enqOrder>>
joinVars == <<joins, jpc, peer1Id, peer2Id>>
mapVars == <<rooms, peerRooms>>
mediaVars == <<transports, transportIds, producers>>
consumeVars == <<consumeArgs, consumers, resumeRequests>>
lifeVars == <<store, worker, listening>>
clientVars == <<cpc, seen, connectionState>>
tabVars == <<status, rendered, timers, current, startedBy, connects>>

\* ---- the Redis list commands (node-redis lPush, lLen, rPop, lRem)
lPush(list, v) == <<v>> \o list

lLen(list) == Len(list)

\* rPop's reply: the tail element, or null on an empty list
rPopReply(list) == IF list = <<>> THEN None ELSE list[Len(list)]

rPopRest(list) == IF list = <<>> THEN <<>> ELSE SubSeq(list, 1, Len(list) - 1)

\* LREM key 1 v: removes the first occurrence of v from the head
RECURSIVE lRem1(_, _)
lRem1(list, v) ==
    IF list = <<>> THEN <<>>
    ELSE IF Head(list) = v THEN Tail(list)
    ELSE <<Head(list)>> \o lRem1(Tail(list), v)

\* ---- socket.io: room keys are <<socketId>> (a socket's own room) or a room name
RoomName(p1, p2) == <<p1, p2>>

OwnRoom(p) == <<p>>

\* io.to(key): the connected sockets that are in socket.io room key, on any replica
IoTo(key) == {x \in Peers : sock[x] = "open" /\ key \in sids[x]}

\* socket.to(key): the same, without the sending socket
SocketTo(s, key) == IoTo(key) \ {s}

Deliver(evs, to, ev) ==
    [x \in Peers |-> IF x \in to THEN Append(evs[x], ev) ELSE evs[x]]

Reply(s, r) == [replies EXCEPT ![s] = Append(@, r)]

\* how many entries of a log of events or replies have the name kind
RECURSIVE CountIn(_, _)
CountIn(seq, kind) ==
    IF seq = <<>> THEN 0
    ELSE (IF Head(seq)[1] = kind THEN 1 ELSE 0) + CountIn(Tail(seq), kind)

\* connectionState.current of a client after cleanup(): every field null
NoConnectionState ==
    [roomName |-> NoRoom, device |-> FALSE, sendTransport |-> None,
     recvTransport |-> None]

\* ---- initial state: no client has connected, the maps and the list are empty
NothingYet ==
    /\ sock = [p \in Peers |-> "new"]
    /\ host = [p \in Peers |-> None]
    /\ sids = [p \in Peers |-> {}]
    /\ pool = <<>>
    /\ enqOrder = <<>>
    /\ joins = [p \in Peers |-> 0]
    /\ jpc = [p \in Peers |-> "idle"]
    /\ peer1Id = [p \in Peers |-> None]
    /\ peer2Id = [p \in Peers |-> None]
    /\ dpc = [p \in Peers |-> "idle"]
    /\ rooms = [r \in Replicas |-> {}]
    /\ peerRooms = [r \in Replicas |-> [p \in Peers |-> NoRoom]]
    /\ transports = [r \in Replicas |-> {}]
    /\ transportIds = 0
    /\ producers = {}
    /\ events = [p \in Peers |-> <<>>]
    /\ replies = [p \in Peers |-> <<>>]
    /\ requests = [p \in Peers |-> <<>>]
    /\ consumeArgs = <<>>
    /\ consumers = {}
    /\ resumeRequests = {}
    /\ cpc = [p \in Peers |-> "idle"]
    /\ seen = [p \in Peers |-> 0]
    /\ connectionState = [p \in Peers |-> NoConnectionState]
    /\ status = "idle"
    /\ rendered = "idle"
    /\ timers = 0
    /\ current = None
    /\ startedBy = [p \in Peers |-> [by |-> "nobody", pending |-> 0]]
    /\ connects = <<>>

\* the replicas have started: stores connected, worker created, listening
Init ==
    /\ NothingYet
    /\ store = [r \in Replicas |-> [pub |-> "ready", sub |-> "ready"]]
    /\ worker = [r \in Replicas |-> "created"]
    /\ listening = [r \in Replicas |-> TRUE]

\* the replica processes have just been launched: the main function has
\* called both connect() and awaits them
InitStartup ==
    /\ NothingYet
    /\ store = [r \in Replicas |-> [pub |-> "pending", sub |-> "pending"]]
    /\ worker = [r \in Replicas |-> "none"]
    /\ listening = [r \in Replicas |-> FALSE]

\* io.on('connection'): a client's socket lands on replica r, which listens
\* (httpServer.listen, line 160); socket.io puts
\* every socket in the room named by its own id and in no other room
Connect(p, r) ==
    /\ listening[r]
    /\ sock[p] = "new"
    /\ sock' = [sock EXCEPT ![p] = "open"]
    /\ host' = [host EXCEPT ![p] = r]
    /\ sids' = [sids EXCEPT ![p] = {OwnRoom(p)}]
    /\ UNCHANGED <<poolVars, joinVars, dpc, mapVars, mediaVars, events, replies,
                   requests, consumeVars,
                   lifeVars, clientVars,
                   tabVars>>

\* A replica's Redis client (pubClient) sends its commands in the order they
\* were issued, so a handler step that issues a command is modelled together
\* with Redis running it.  The two rPop of Promise.all are issued in one tick,
\* so no command of the same replica runs between them; a command of another
\* replica, which has its own client, may.
StoreFree(s) ==
    \A t \in Peers : (t # s /\ host[t] = host[s]) => jpc[t] # "rPop2"

\* ---- socket.on('join'), server.ts 47-69.  One handler per socket is in
\* flight at a time in this model; a socket may send join again once its
\* previous handler has returned (joins counts them, MaxJoins bounds them).

\* line 48: the handler starts and its LPUSH runs
Join(s) ==
    /\ sock[s] = "open"
    /\ jpc[s] = "idle"
    /\ joins[s] < MaxJoins
    /\ StoreFree(s)
    /\ pool' = lPush(pool, s)
    /\ enqOrder' = Append(enqOrder, s)
    /\ joins' = [joins EXCEPT ![s] = @ + 1]
    /\ jpc' = [jpc EXCEPT ![s] = "lLen"]
    /\ UNCHANGED <<sock, host, sids, peer1Id, peer2Id, dpc, mapVars, mediaVars,
                   events, replies,
                   requests, consumeVars,
                   lifeVars, clientVars,
                   tabVars>>

\* lines 49-51 and 66-68: LLEN runs; below two the handler answers 'waiting'
JoinLLen(s) ==
    /\ jpc[s] = "lLen"
    /\ StoreFree(s)
    /\ LET waitingCount == lLen(pool)
       IN IF waitingCount >= 2
          THEN /\ jpc' = [jpc EXCEPT ![s] = "rPop1"]
               /\ UNCHANGED replies
          ELSE /\ jpc' = [jpc EXCEPT ![s] = "idle"]
               /\ replies' = Reply(s, <<"join", "waiting">>)
    /\ UNCHANGED <<sock, host, sids, poolVars, joins, peer1Id, peer2Id, dpc,
                   mapVars, mediaVars, events,
                   requests, consumeVars,
                   lifeVars, clientVars,
                   tabVars>>

\* line 53: the first RPOP runs
JoinRPop1(s) ==
    /\ jpc[s] = "rPop1"
    /\ StoreFree(s)
    /\ peer1Id' = [peer1Id EXCEPT ![s] = rPopReply(pool)]
    /\ pool' = rPopRest(pool)
    /\ jpc' = [jpc EXCEPT ![s] = "rPop2"]
    /\ UNCHANGED <<sock, host, sids, enqOrder, joins, peer2Id, dpc,
                   mapVars, mediaVars, events, replies,
                   requests, consumeVars,
                   lifeVars, clientVars,
                   tabVars>>

\* lines 54-57: the second RPOP runs; with a null among the two replies the
\* handler returns without a room and without an answer
JoinRPop2(s) ==
    /\ jpc[s] = "rPop2"
    /\ pool' = rPopRest(pool)
    /\ IF peer1Id[s] # None /\ rPopReply(pool) # None
       THEN /\ peer2Id' = [peer2Id EXCEPT ![s] = rPopReply(pool)]
            /\ jpc' = [jpc EXCEPT ![s] = "createRouter"]
            /\ UNCHANGED peer1Id
       ELSE /\ peer1Id' = [peer1Id EXCEPT ![s] = None]
            /\ peer2Id' = [peer2Id EXCEPT ![s] = None]
            /\ jpc' = [jpc EXCEPT ![s] = "idle"]
    /\ UNCHANGED <<sock, host, sids, enqOrder, joins, dpc, mapVars, mediaVars,
                   events, replies,
                   requests, consumeVars,
                   lifeVars, clientVars,
                   tabVars>>

\* lines 60-64, after createRouter resolved: the room is recorded on the
\* replica that ran the handler, then for peer1Id and for peer2Id in turn the
\* peerRooms entry is set and 'matched' goes to the socket's own room
MatchedTo(evs, peerId, roomName) ==
    Deliver(evs, IoTo(OwnRoom(peerId)), <<"matched", roomName>>)

JoinCreateRoom(s) ==
    /\ jpc[s] = "createRouter"
    /\ LET roomName == RoomName(peer1Id[s], peer2Id[s])
           r == host[s]
       IN /\ rooms' = [rooms EXCEPT ![r] = @ \cup {roomName}]
          /\ peerRooms' = [peerRooms EXCEPT ![r] =
                 [[@ EXCEPT ![peer1Id[s]] = roomName]
                     EXCEPT ![peer2Id[s]] = roomName]]
          /\ events' = MatchedTo(MatchedTo(events, peer1Id[s], roomName),
                                 peer2Id[s], roomName)
    /\ peer1Id' = [peer1Id EXCEPT ![s] = None]
    /\ peer2Id' = [peer2Id EXCEPT ![s] = None]
    /\ jpc' = [jpc EXCEPT ![s] = "idle"]
    /\ UNCHANGED <<sock, host, sids, poolVars, joins, dpc, mediaVars, replies,
                   requests, consumeVars,
                   lifeVars, clientVars,
                   tabVars>>

\* ---- socket.on('disconnect'), server.ts 147-156

\* Map.clear(): every key goes, whichever key was named
MapClear(m, key) == [p \in DOMAIN m |-> NoRoom]

\* Map.delete(key): the entry of key goes, the others stay
MapDelete(m, key) == [m EXCEPT ![key] = NoRoom]

\* the socket closes (it leaves its socket.io rooms) and the handler starts
Disconnect(s) ==
    /\ sock[s] = "open"
    /\ sock' = [sock EXCEPT ![s] = "closed"]
    /\ sids' = [sids EXCEPT ![s] = {}]
    /\ dpc' = [dpc EXCEPT ![s] = "lRem"]
    /\ UNCHANGED <<host, poolVars, joinVars, mapVars, mediaVars, events, replies,
                   requests, consumeVars,
                   lifeVars, clientVars,
                   tabVars>>

\* line 149: LREM runs
DisconnectLRem(s) ==
    /\ dpc[s] = "lRem"
    /\ StoreFree(s)
    /\ pool' = lRem1(pool, s)
    /\ dpc' = [dpc EXCEPT ![s] = "notify"]
    /\ UNCHANGED <<sock, host, sids, enqOrder, joinVars, mapVars, mediaVars,
                   events, replies,
                   requests, consumeVars,
                   lifeVars, clientVars,
                   tabVars>>

\* lines 150-155: with a peerRooms entry on this replica, 'peer-disconnected'
\* goes to the sockets in the socket.io room of that name, and the entry goes
DisconnectNotify(s) ==
    /\ dpc[s] = "notify"
    /\ LET r == host[s]
           roomName == peerRooms[r][s]
       IN IF roomName # NoRoom
          THEN /\ events' = Deliver(events, SocketTo(s, roomName),
                                    <<"peer-disconnected">>)
               /\ peerRooms' = [peerRooms EXCEPT ![r] = MapDelete(@, s)]
          ELSE UNCHANGED <<events, peerRooms>>
    /\ dpc' = [dpc EXCEPT ![s] = "done"]
    /\ UNCHANGED <<sock, host, sids, poolVars, joinVars, rooms, mediaVars, replies,
                   requests, consumeVars,
                   lifeVars, clientVars,
                   tabVars>>

\* ---- the media handlers, server.ts 71-145.  Each is one step: between its
\* awaits a handler reads nothing another handler writes.  engineOk says
\* whether the mediasoup call the handler awaits resolves (TRUE) or throws.

\* the room names a client can put in a request: those some replica handed
\* out, or a name no replica knows
UnknownRoom == RoomName(None, None)

KnownRoomNames == UNION {rooms[r] : r \in Replicas}

RequestRoomNames == KnownRoomNames \cup {UnknownRoom}

\* transports.get(transportId) on replica r
TransportsGet(r, transportId) == {t \in transports[r] : t.id = transportId}

Request(s, rq) == [requests EXCEPT ![s] = Append(@, rq)]

\* socket.on('getRouterRtpCapabilities'), lines 71-74: the callback is called
\* only if the room is in this replica's rooms map
GetRouterRtpCapabilities(s, roomName) ==
    /\ sock[s] = "open"
    /\ requests' = Request(s, <<"getRouterRtpCapabilities">>)
    /\ replies' = IF roomName \in rooms[host[s]]
                  THEN Reply(s, <<"getRouterRtpCapabilities", "rtpCapabilities">>)
                  ELSE replies
    /\ UNCHANGED <<sock, host, sids, poolVars, joinVars, dpc, mapVars, mediaVars,
                   events, consumeVars,
                   lifeVars, clientVars,
                   tabVars>>

\* socket.on('createWebRtcTransport'), lines 76-103: the room is looked up in
\* the handling replica's rooms map; the new transport is stored under its id;
\* a missing room and a throwing engine both end in the catch's error answer
CreateWebRtcTransport(s, roomName, isProducer, engineOk) ==
    /\ sock[s] = "open"
    /\ requests' = Request(s, <<"createWebRtcTransport">>)
    /\ LET r == host[s]
       IN IF roomName \notin rooms[r] \/ ~engineOk
          THEN /\ replies' = Reply(s, <<"createWebRtcTransport", "error">>)
               /\ UNCHANGED <<transports, transportIds>>
          ELSE /\ transportIds' = transportIds + 1
               /\ transports' = [transports EXCEPT ![r] = @ \cup
                      {[id |-> transportIds + 1, socketId |-> s,
                        isProducer |-> isProducer, roomName |-> roomName]}]
               /\ replies' = Reply(s, <<"createWebRtcTransport", "id",
                                      transportIds + 1>>)
    /\ UNCHANGED <<sock, host, sids, poolVars, joinVars, dpc, mapVars, producers,
                   events, consumeVars,
                   lifeVars, clientVars,
                   tabVars>>

\* transport.on('dtlsstatechange') with 'closed', lines 91-96: the one place
\* that deletes from the transports map
DtlsClosed(r, t) ==
    /\ t \in transports[r]
    /\ transports' = [transports EXCEPT ![r] = @ \ {t}]
    /\ UNCHANGED <<sock, host, sids, poolVars, joinVars, dpc, mapVars,
                   transportIds, producers, events, replies,
                   requests, consumeVars,
                   lifeVars, clientVars,
                   tabVars>>

\* socket.on('connectTransport'), lines 104-109: no try/catch, so when
\* transport.connect throws the handler ends without calling the callback
ConnectTransport(s, transportId, engineOk) ==
    /\ sock[s] = "open"
    /\ requests' = Request(s, <<"connectTransport">>)
    /\ replies' = IF TransportsGet(host[s], transportId) = {}
                  THEN Reply(s, <<"connectTransport", "Transport not found">>)
                  ELSE IF engineOk
                       THEN Reply(s, <<"connectTransport", "connected">>)
                       ELSE replies
    /\ UNCHANGED <<sock, host, sids, poolVars, joinVars, dpc, mapVars, mediaVars,
                   events, consumeVars,
                   lifeVars, clientVars,
                   tabVars>>

\* socket.on('produce'), lines 111-121: the producer is created on the
\* transport, then 'new-producer' goes to the sockets in the socket.io room
\* named by the caller's peerRooms entry on this replica, the caller excepted;
\* no try/catch, so when transport.produce throws nothing is answered
Produce(s, transportId, kind, engineOk) ==
    /\ sock[s] = "open"
    /\ requests' = Request(s, <<"produce">>)
    /\ LET r == host[s]
           roomName == peerRooms[r][s]
           producerId == Cardinality(producers) + 1
           found == TransportsGet(r, transportId)
       IN IF found = {}
          THEN /\ replies' = Reply(s, <<"produce", "Transport not found">>)
               /\ UNCHANGED <<producers, events>>
          ELSE IF ~engineOk
          THEN UNCHANGED <<producers, events, replies>>
          ELSE /\ producers' = producers \cup
                      {[id |-> producerId, transportId |-> transportId,
                        kind |-> kind, by |-> s,
                        router |-> <<r, (CHOOSE t \in found : TRUE).roomName>>]}
               /\ events' = IF roomName # NoRoom
                            THEN Deliver(events, SocketTo(s, roomName),
                                         <<"new-producer", producerId>>)
                            ELSE events
               /\ replies' = Reply(s, <<"produce", producerId>>)
    /\ UNCHANGED <<sock, host, sids, poolVars, joinVars, dpc, mapVars, transports,
                   transportIds, consumeVars,
                   lifeVars, clientVars,
                   tabVars>>

\* router.canConsume({producerId, rtpCapabilities}) of the router of roomName on
\* replica r: the producer must be one of that router, and the capabilities the
\* client sent must fit its codec (compatible, an input of the request)
CanConsume(r, roomName, producerId, compatible) ==
    /\ compatible
    /\ \E pr \in producers : pr.id = producerId /\ pr.router = <<r, roomName>>

\* a find that looks at the owner only and not at appData.isProducer
TransportsOfSocket(r, s) == {t \in transports[r] : t.socketId = s}

\* Array.from(transports.values()).find(...): the first transport, in insertion
\* order, that this socket created with a falsy isProducer
RecvTransportsOf(r, s) == {t \in transports[r] : t.socketId = s /\ ~t.isProducer}

FindRecvTransport(r, s) ==
    CHOOSE t \in RecvTransportsOf(r, s) : \A u \in RecvTransportsOf(r, s) : t.id <= u.id

\* socket.on('consume'), lines 123-140: every failure, thrown before or by
\* transport.consume, ends in the catch's error answer; transport.consume
\* throws when the engine does, and when the producer is not one of the
\* transport's router
Consume(s, roomName, producerId, compatible, engineOk) ==
    /\ sock[s] = "open"
    /\ requests' = Request(s, <<"consume">>)
    /\ consumeArgs' = <<s, roomName, producerId, compatible>>
    /\ LET r == host[s]
       IN IF \/ roomName \notin rooms[r]
             \/ ~CanConsume(r, roomName, producerId, compatible)
             \/ RecvTransportsOf(r, s) = {}
             \/ FindRecvTransport(r, s).roomName # roomName
             \/ ~engineOk
          THEN /\ replies' = Reply(s, <<"consume", "error">>)
               /\ UNCHANGED consumers
          ELSE /\ LET pr == CHOOSE x \in producers : x.id = producerId
                      consumerId == Cardinality(consumers) + 1
                  IN /\ consumers' = consumers \cup
                            {[id |-> consumerId, producerId |-> producerId,
                              transportId |-> FindRecvTransport(r, s).id,
                              by |-> s, kind |-> pr.kind, paused |-> TRUE]}
                     /\ replies' = Reply(s, <<"consume", consumerId, pr.kind>>)
    /\ UNCHANGED <<sock, host, sids, poolVars, joinVars, dpc, mapVars, mediaVars,
                   events, resumeRequests,
                   lifeVars, clientVars,
                   tabVars>>

\* socket.on('resume-consumer'), lines 142-145: the handler body is empty; the
\* model only notes that the event was handled
ResumeConsumer(s, consumerId) ==
    /\ sock[s] = "open"
    /\ consumerId \notin resumeRequests
    /\ resumeRequests' = resumeRequests \cup {consumerId}
    /\ UNCHANGED <<sock, host, sids, poolVars, joinVars, dpc, mapVars, mediaVars,
                   events, replies, requests, consumeArgs, consumers,
                   lifeVars, clientVars,
                   tabVars>>

\* ---- the replica process: the main function (lines 37-46, 159-160), the
\* worker's 'died' handler (lines 29-32)

\* one of the two connections of Promise.all settles
PubConnect(r, ok) ==
    /\ store[r].pub = "pending"
    /\ store' = [store EXCEPT ![r].pub = IF ok THEN "ready" ELSE "failed"]
    /\ UNCHANGED <<sock, host, sids, poolVars, joinVars, dpc, mapVars, mediaVars,
                   events, replies, requests, consumeVars, worker, listening,
                   clientVars,
                   tabVars>>

SubConnect(r, ok) ==
    /\ store[r].sub = "pending"
    /\ store' = [store EXCEPT ![r].sub = IF ok THEN "ready" ELSE "failed"]
    /\ UNCHANGED <<sock, host, sids, poolVars, joinVars, dpc, mapVars, mediaVars,
                   events, replies, requests, consumeVars, worker, listening,
                   clientVars,
                   tabVars>>

\* a Promise.race in the place of Promise.all: one connection is enough
PubReady(r) == store[r].pub = "ready"

\* await Promise.all([pubClient.connect(), subClient.connect()]) has resolved
StoresReady(r) == store[r].pub = "ready" /\ store[r].sub = "ready"

\* worker = await createWorker() and what follows it without an await: the io
\* Server, the connection handler, httpServer.listen.  A rejected
\* createWorker ends the main function.
CreateWorker(r, ok) ==
    /\ StoresReady(r)
    /\ worker[r] = "none"
    /\ worker' = [worker EXCEPT ![r] = IF ok THEN "created" ELSE "failed"]
    /\ listening' = [listening EXCEPT ![r] = ok]
    /\ UNCHANGED <<sock, host, sids, poolVars, joinVars, dpc, mapVars, mediaVars,
                   events, replies, requests, consumeVars, store, clientVars,
                   tabVars>>

\* w.on('died'): the handler logs and arms a 2 s timer, nothing else
WorkerDied(r) ==
    /\ worker[r] = "created"
    /\ worker' = [worker EXCEPT ![r] = "died"]
    /\ UNCHANGED <<sock, host, sids, poolVars, joinVars, dpc, mapVars, mediaVars,
                   events, replies, requests, consumeVars, store, listening,
                   clientVars,
                   tabVars>>

\* the timer fires: process.exit(1).  The process's maps and handlers in
\* flight are gone, its sockets are cut; no disconnect handler runs.
Exit(r) ==
    /\ worker[r] = "died"
    /\ worker' = [worker EXCEPT ![r] = "gone"]
    /\ listening' = [listening EXCEPT ![r] = FALSE]
    /\ sock' = [p \in Peers |-> IF host[p] = r THEN "closed" ELSE sock[p]]
    /\ sids' = [p \in Peers |-> IF host[p] = r THEN {} ELSE sids[p]]
    /\ jpc' = [p \in Peers |-> IF host[p] = r THEN "idle" ELSE jpc[p]]
    /\ peer1Id' = [p \in Peers |-> IF host[p] = r THEN None ELSE peer1Id[p]]
    /\ peer2Id' = [p \in Peers |-> IF host[p] = r THEN None ELSE peer2Id[p]]
    /\ dpc' = [p \in Peers |-> IF host[p] = r /\ dpc[p] # "done" THEN "idle" ELSE dpc[p]]
    /\ rooms' = [rooms EXCEPT ![r] = {}]
    /\ peerRooms' = [peerRooms EXCEPT ![r] = [p \in Peers |-> NoRoom]]
    /\ transports' = [transports EXCEPT ![r] = {}]
    /\ producers' = {pr \in producers : pr.router[1] # r}
    /\ consumers' = {c \in consumers : host[c.by] # r}
    /\ UNCHANGED <<host, poolVars, joins, transportIds, events, replies, requests,
                   consumeArgs, resumeRequests, store, clientVars,
                   tabVars>>

\* ---- the client, components/VideoChat.tsx: the 'matched' handler (75-114).
\* cpc[p] names the request the handler has emitted and awaits the answer of.
\* The 'new-producer' handler (116-130) runs on a delivered 'new-producer'
\* only, and the server delivers none (socket.to of a room no socket is in).

\* the requests of the 'matched' handler, in the order it emits them
Handshake ==
    <<"getRouterRtpCapabilities", "createSendTransport", "connectSendTransport",
      "produceVideo", "produceAudio", "createRecvTransport">>

\* how many requests the 'matched' handler has emitted when it stands at pc
Emitted(pc) ==
    IF \E i \in 1..Len(Handshake) : Handshake[i] = pc
    THEN CHOOSE i \in 1..Len(Handshake) : Handshake[i] = pc
    ELSE 0

\* the answers to media requests client p has received
MediaReplies(p) == SelectSeq(replies[p], LAMBDA rp : rp[1] # "join")

\* the awaited request has reached the server / has been answered
Handled(p) == Len(requests[p]) >= Emitted(cpc[p])

Replied(p) == Emitted(cpc[p]) > 0 /\ Len(MediaReplies(p)) >= Emitted(cpc[p])

\* the event the client handles next
NextEvent(p) == events[p][seen[p] + 1]

\* socket.on('matched'), lines 75-80: roomName is kept and the first request
\* goes out.  A client that sent join once is popped once, so it gets at most
\* one 'matched' and one handler runs.
ClientMatched(p) ==
    /\ sock[p] = "open"
    /\ seen[p] < Len(events[p])
    /\ NextEvent(p)[1] = "matched"
    /\ cpc[p] = "idle"
    /\ seen' = [seen EXCEPT ![p] = @ + 1]
    /\ connectionState' = [connectionState EXCEPT ![p].roomName = NextEvent(p)[2]]
    /\ cpc' = [cpc EXCEPT ![p] = Handshake[1]]
    /\ UNCHANGED <<sock, host, sids, poolVars, joinVars, dpc, mapVars, mediaVars,
                   events, replies, requests, consumeVars, lifeVars,
                   tabVars>>

\* the catch of the 'matched' handler, lines 109-113: cleanup() resets
\* connectionState and disconnects the socket, which starts the server's
\* disconnect handler
ClientCleanup(p) ==
    /\ connectionState' = [connectionState EXCEPT ![p] = NoConnectionState]
    /\ cpc' = [cpc EXCEPT ![p] = "error"]
    /\ sock' = [sock EXCEPT ![p] = "closed"]
    /\ sids' = [sids EXCEPT ![p] = {}]
    /\ dpc' = [dpc EXCEPT ![p] = "lRem"]

\* the awaited answer arrives and the 'matched' handler runs on to its next
\* emit, lines 80-107.  sendTransport.produce of the first track makes the
\* transport emit 'connect' and then 'produce'; an {error} answer to a
\* createWebRtcTransport is thrown.
ClientReply(p) ==
    /\ sock[p] = "open"
    /\ Replied(p)
    /\ LET rp == MediaReplies(p)[Emitted(cpc[p])]
           step == Emitted(cpc[p])
       IN IF step \in {2, 6} /\ rp[2] = "error"
          THEN ClientCleanup(p)
          ELSE /\ connectionState' = [connectionState EXCEPT ![p] =
                      IF step = 1 THEN [@ EXCEPT !.device = TRUE]
                      ELSE IF step = 2 THEN [@ EXCEPT !.sendTransport = rp[3]]
                      ELSE IF step = 6 THEN [@ EXCEPT !.recvTransport = rp[3]]
                      ELSE @]
               /\ cpc' = [cpc EXCEPT ![p] =
                      IF step < Len(Handshake) THEN Handshake[step + 1] ELSE "ready"]
               /\ UNCHANGED <<sock, sids, dpc>>
    /\ UNCHANGED <<host, poolVars, joinVars, mapVars, mediaVars, events, replies,
                   requests, consumeVars, lifeVars, seen,
                   tabVars>>

\* the server's handler of the request the client awaits, with the arguments
\* the client sent
ServeHandshake(s) ==
    /\ ~Handled(s)
    /\ LET cs == connectionState[s]
       IN \/ /\ cpc[s] = "getRouterRtpCapabilities"
             /\ GetRouterRtpCapabilities(s, cs.roomName)
          \/ /\ cpc[s] \in {"createSendTransport", "createRecvTransport"}
             /\ CreateWebRtcTransport(s, cs.roomName,
                                      cpc[s] = "createSendTransport", TRUE)
          \/ /\ cpc[s] = "connectSendTransport"
             /\ ConnectTransport(s, cs.sendTransport, TRUE)
          \/ /\ cpc[s] \in {"produceVideo", "produceAudio"}
             /\ Produce(s, cs.sendTransport,
                        IF cpc[s] = "produceVideo" THEN "video" ELSE "audio", TRUE)

\* ---- one browser tab of the client, components/VideoChat.tsx: connect()
\* (54-142) called by the Start / Next buttons and by the reconnect timer,
\* cleanup() (38-52), the status state and what React has rendered of it.
\* Each connect() makes a new socket; the tab's sockets are numbered in the
\* order they are made.

\* the server's side is not run here: it stays as it is
ServerSide ==
    <<poolVars, jpc, peer1Id, peer2Id, mapVars, mediaVars, replies, requests,
      consumeVars, lifeVars>>

\* the Start button is mounted when the rendered status is 'idle' (line 172),
\* the Next button when it is 'connected' (lines 186, 190)
ButtonShown(st) == st \in {"idle", "connected"}

\* the socket the next io() call makes
NewSocket == CHOOSE p \in Peers : sock[p] = "new" /\ \A q \in Peers : q < p => sock[q] # "new"

SocketsLeft == Cardinality({p \in Peers : sock[p] = "new"})

\* cleanup(), lines 38-52: the current socket, if any, is disconnected and
\* connectionState.current is reset
TabCleanup ==
    /\ sock' = [p \in Peers |-> IF p = current THEN "closed" ELSE sock[p]]
    /\ sids' = [p \in Peers |-> IF p = current THEN {} ELSE sids[p]]
    /\ dpc' = [p \in Peers |-> IF p = current THEN "lRem" ELSE dpc[p]]
    /\ connectionState' = [p \in Peers |->
                              IF p = current THEN NoConnectionState
                              ELSE connectionState[p]]
    /\ cpc' = [p \in Peers |-> IF p = current THEN "idle" ELSE cpc[p]]
    /\ current' = None

\* connect() from its call to its await of getUserMedia, lines 54-59: by is
\* "user" for a click on a mounted Start / Next button, "timer" for a
\* reconnect timer that fires.  A timer runs 3000 ms, a render is due within
\* milliseconds: when a timer fires the last status has been rendered.
ConnectStart(by) ==
    /\ Len(connects) < SocketsLeft
    /\ IF by = "user"
       THEN ButtonShown(rendered) /\ UNCHANGED timers
       ELSE timers > 0 /\ rendered = status /\ timers' = timers - 1
    /\ TabCleanup
    /\ status' = "searching"
    /\ connects' = Append(connects, [by |-> by, pending |-> timers])
    /\ UNCHANGED <<host, joins, events, seen, rendered, startedBy, ServerSide>>

\* getUserMedia settles for the i-th waiting connect(), lines 60-73: on a
\* rejection the status is 'error'; else io() makes the socket, which
\* connects to replica r and emits join.  The device call takes longer than
\* a render, so 'searching' has been rendered by then.
ConnectResume(i, ok, r) ==
    /\ i \in 1..Len(connects)
    /\ rendered = status
    /\ connects' = SubSeq(connects, 1, i - 1) \o SubSeq(connects, i + 1, Len(connects))
    /\ IF ok
       THEN /\ sock' = [sock EXCEPT ![NewSocket] = "open"]
            /\ host' = [host EXCEPT ![NewSocket] = r]
            /\ sids' = [sids EXCEPT ![NewSocket] = {OwnRoom(NewSocket)}]
            /\ joins' = [joins EXCEPT ![NewSocket] = 1]
            /\ startedBy' = [startedBy EXCEPT ![NewSocket] = connects[i]]
            /\ current' = NewSocket
            /\ UNCHANGED status
       ELSE /\ status' = "error"
            /\ UNCHANGED <<sock, host, sids, joins, startedBy, current>>
    /\ UNCHANGED <<dpc, events, clientVars, rendered, timers, ServerSide>>

\* React renders the component with the status set last
Render ==
    /\ rendered # status
    /\ rendered' = status
    /\ UNCHANGED <<sock, host, sids, joins, dpc, events, clientVars, status,
                   timers, current, startedBy, connects, ServerSide>>

\* 'matched' arrives on socket p, once, after its join; socket.on('matched'),
\* lines 75-80: status 'connected', the room name is kept, the first request
\* of the handshake goes out
TabMatched(p, roomName) ==
    /\ sock[p] = "open" /\ joins[p] > 0
    /\ CountIn(events[p], "matched") = 0
    /\ events' = [events EXCEPT ![p] = Append(@, <<"matched", roomName>>)]
    /\ seen' = [seen EXCEPT ![p] = @ + 1]
    /\ status' = "connected"
    /\ connectionState' = [connectionState EXCEPT ![p].roomName = roomName]
    /\ cpc' = [cpc EXCEPT ![p] = Handshake[1]]
    /\ UNCHANGED <<sock, host, sids, joins, dpc, rendered, timers, current,
                   startedBy, connects, ServerSide>>

\* 'peer-disconnected' arrives on socket p, once, after its 'matched';
\* socket.on('peer-disconnected'), lines 132-136: status 'disconnected' and a
\* timer that will call connect(); the timer's handle is not kept
TabPeerDisconnected(p) ==
    /\ sock[p] = "open"
    /\ CountIn(events[p], "matched") = 1
    /\ CountIn(events[p], "peer-disconnected") = 0
    /\ events' = [events EXCEPT ![p] = Append(@, <<"peer-disconnected">>)]
    /\ seen' = [seen EXCEPT ![p] = @ + 1]
    /\ status' = "disconnected"
    /\ timers' = timers + 1
    /\ UNCHANGED <<sock, host, sids, joins, dpc, cpc, connectionState, rendered,
                   current, startedBy, connects, ServerSide>>

\* ---- specifications

\* Pairing alone: every client connects to some replica and sends join once;
\* nobody disconnects.  Socket ids are opaque, so the clients are numbered in
\* the order they connect and send join; which replica each one reaches is free.
ConnectNext(p, r) ==
    /\ \A q \in Peers : q < p => sock[q] # "new"
    /\ Connect(p, r)

JoinOnce(s) ==
    /\ joins[s] = 0
    /\ \A q \in Peers : q < s => joins[q] > 0
    /\ Join(s)

NextPairing ==
    \/ \E p \in Peers, r \in Replicas : ConnectNext(p, r)
    \/ \E s \in Peers : JoinOnce(s)
    \/ \E s \in Peers : JoinLLen(s)
    \/ \E s \in Peers : JoinRPop1(s)
    \/ \E s \in Peers : JoinRPop2(s)
    \/ \E s \in Peers : JoinCreateRoom(s)

SpecPairing == Init /\ [][NextPairing]_vars

\* Joins and disconnects, a socket sending join up to MaxJoins times.
NextRejoin ==
    \/ \E p \in SessionPeers, r \in Replicas : ConnectNext(p, r)
    \/ \E s \in SessionPeers : Join(s)
    \/ \E s \in SessionPeers : JoinLLen(s)
    \/ \E s \in SessionPeers : JoinRPop1(s)
    \/ \E s \in SessionPeers : JoinRPop2(s)
    \/ \E s \in SessionPeers : JoinCreateRoom(s)
    \/ \E s \in SessionPeers : Disconnect(s)
    \/ \E s \in SessionPeers : DisconnectLRem(s)
    \/ \E s \in SessionPeers : DisconnectNotify(s)

SpecRejoin == Init /\ [][NextRejoin]_vars

\* the budgets of the bounded runs: requests per socket, and the transports,
\* producers and consumers the engine is asked for
MayAsk(s) == Len(requests[s]) < MaxRequests

MayCreateTransport(s) == MayAsk(s) /\ transportIds < MaxTransports

MayProduce(s) == MayAsk(s) /\ Cardinality(producers) < MaxProducers

MayConsume(s) == MayAsk(s) /\ Cardinality(consumers) < MaxConsumers

\* One session: the clients join once, negotiate media and disconnect; the
\* engine's calls resolve.
Next ==
    \/ \E p \in SessionPeers, r \in Replicas : ConnectNext(p, r)
    \/ \E s \in SessionPeers : JoinOnce(s)
    \/ \E s \in SessionPeers : JoinLLen(s)
    \/ \E s \in SessionPeers : JoinRPop1(s)
    \/ \E s \in SessionPeers : JoinRPop2(s)
    \/ \E s \in SessionPeers : JoinCreateRoom(s)
    \/ \E s \in SessionPeers : Disconnect(s)
    \/ \E s \in SessionPeers : DisconnectLRem(s)
    \/ \E s \in SessionPeers : DisconnectNotify(s)
    \/ \E s \in SessionPeers, roomName \in KnownRoomNames, isProducer \in BOOLEAN :
           MayCreateTransport(s) /\ CreateWebRtcTransport(s, roomName, isProducer, TRUE)
    \/ \E r \in Replicas : \E t \in transports[r] : DtlsClosed(r, t)
    \/ \E s \in SessionPeers, transportId \in 1..transportIds :
           MayAsk(s) /\ ConnectTransport(s, transportId, TRUE)
    \/ \E s \in SessionPeers, transportId \in 1..transportIds, kind \in Kinds :
           MayProduce(s) /\ Produce(s, transportId, kind, TRUE)

Spec == Init /\ [][Next]_vars

\* The media requests, answered or not: the clients of one replica join once
\* and send any request with any argument, between the join handlers' runs;
\* the engine's calls may throw.
\* no join handler is between two of its awaits
JoinsQuiet == \A s \in SessionPeers : jpc[s] = "idle"

NextMedia ==
    \/ \E p \in SessionPeers : ConnectNext(p, 1)
    \/ \E s \in SessionPeers : JoinOnce(s)
    \/ \E s \in SessionPeers : JoinLLen(s)
    \/ \E s \in SessionPeers : JoinRPop1(s)
    \/ \E s \in SessionPeers : JoinRPop2(s)
    \/ \E s \in SessionPeers : JoinCreateRoom(s)
    \/ \E s \in SessionPeers, roomName \in RequestRoomNames :
           JoinsQuiet /\ MayAsk(s) /\ GetRouterRtpCapabilities(s, roomName)
    \/ \E s \in SessionPeers, roomName \in RequestRoomNames,
          isProducer \in BOOLEAN, engineOk \in BOOLEAN :
           /\ JoinsQuiet /\ MayCreateTransport(s)
           /\ CreateWebRtcTransport(s, roomName, isProducer, engineOk)
    \/ \E s \in SessionPeers, transportId \in 1..MaxTransports,
          engineOk \in BOOLEAN :
           JoinsQuiet /\ MayAsk(s) /\ ConnectTransport(s, transportId, engineOk)
    \/ \E s \in SessionPeers, transportId \in 1..MaxTransports, kind \in Kinds,
          engineOk \in BOOLEAN :
           JoinsQuiet /\ MayProduce(s) /\ Produce(s, transportId, kind, engineOk)
    \/ \E s \in SessionPeers, roomName \in RequestRoomNames,
          producerId \in 1..MaxProducers, compatible \in BOOLEAN,
          engineOk \in BOOLEAN :
           /\ JoinsQuiet /\ MayConsume(s)
           /\ Consume(s, roomName, producerId, compatible, engineOk)
    \/ \E s \in SessionPeers, consumerId \in 1..MaxConsumers :
           JoinsQuiet /\ ResumeConsumer(s, consumerId)

SpecMedia == Init /\ [][NextMedia]_vars

\* A replica from its launch to its exit, with the pairing of the clients
\* that reach it.
NextLifecycle ==
    \/ \E r \in Replicas, ok \in BOOLEAN : PubConnect(r, ok)
    \/ \E r \in Replicas, ok \in BOOLEAN : SubConnect(r, ok)
    \/ \E r \in Replicas, ok \in BOOLEAN : CreateWorker(r, ok)
    \/ \E r \in Replicas : WorkerDied(r)
    \/ \E r \in Replicas : Exit(r)
    \/ \E p \in SessionPeers, r \in Replicas : ConnectNext(p, r)
    \/ \E s \in SessionPeers : JoinOnce(s)
    \/ \E s \in SessionPeers : JoinLLen(s)
    \/ \E s \in SessionPeers : JoinRPop1(s)
    \/ \E s \in SessionPeers : JoinRPop2(s)
    \/ \E s \in SessionPeers : JoinCreateRoom(s)
    \/ \E s \in SessionPeers, roomName \in KnownRoomNames, isProducer \in BOOLEAN :
           /\ JoinsQuiet /\ MayCreateTransport(s)
           /\ CreateWebRtcTransport(s, roomName, isProducer, TRUE)
    \/ \E s \in SessionPeers, transportId \in 1..transportIds, kind \in Kinds :
           JoinsQuiet /\ MayProduce(s) /\ Produce(s, transportId, kind, TRUE)

SpecLifecycle == InitStartup /\ [][NextLifecycle]_vars

\* Two paired clients that stay: each connects, joins once and runs its
\* handlers; the server answers what they ask.
NextClient ==
    \/ \E p \in SessionPeers, r \in Replicas : ConnectNext(p, r)
    \/ \E s \in SessionPeers : JoinOnce(s)
    \/ \E s \in SessionPeers : JoinLLen(s)
    \/ \E s \in SessionPeers : JoinRPop1(s)
    \/ \E s \in SessionPeers : JoinRPop2(s)
    \/ \E s \in SessionPeers : JoinCreateRoom(s)
    \/ \E p \in SessionPeers : ClientMatched(p)
    \/ \E s \in SessionPeers : ServeHandshake(s)
    \/ \E p \in SessionPeers : ClientReply(p)

SpecClient == Init /\ [][NextClient]_vars

\* One browser tab: its user, its reconnect timers, and the events a server
\* sends to its sockets.
NextReconnect ==
    \/ \E by \in {"user", "timer"} : ConnectStart(by)
    \/ \E i \in 1..NPeers, ok \in BOOLEAN, r \in Replicas : ConnectResume(i, ok, r)
    \/ Render
    \/ \E p \in Peers : TabMatched(p, RoomName(p, p))
    \/ \E p \in Peers : TabPeerDisconnected(p)

SpecReconnect == Init /\ [][NextReconnect]_vars

\* ---- what the claims speak about

\* the rooms that exist: one per key of each replica's rooms map
RoomEntries == {e \in Replicas \X KnownRoomNames : e[2] \in rooms[e[1]]}

Members(roomName) == {roomName[1], roomName[2]}

EntriesOf(p) == {e \in RoomEntries : p \in Members(e[2])}

\* p has a peer-to-room entry on some replica
HasPeerRoom(p) == \E r \in Replicas : peerRooms[r][p] # NoRoom

InPool(p) == \E i \in 1..Len(pool) : pool[i] = p

Joined == {p \in Peers : joins[p] > 0}

JoinHandlersDone == \A p \in Peers : jpc[p] = "idle"

\* position of p's LPUSH among the LPUSH commands Redis has executed
EnqPos(p) == CHOOSE i \in 1..Len(enqOrder) : enqOrder[i] = p

\* s and o are the two members of a room
PairedWith(s, o) == s # o /\ \E e \in RoomEntries : Members(e[2]) = {s, o}

\* C1: N distinct connected peers have each sent join once, N is even, nobody
\* disconnected and every join handler has returned: then there are N/2 rooms,
\* each of two distinct members, every peer is in exactly one room, has a
\* peer-to-room entry and got one 'matched', and the waiting pool is empty.
C1_EvenJoinsAllPaired ==
    (JoinHandlersDone /\ Cardinality(Joined) % 2 = 0) =>
        /\ Cardinality(RoomEntries) = Cardinality(Joined) \div 2
        /\ \A e \in RoomEntries : e[2][1] # e[2][2]
        /\ \A p \in Joined :
              /\ Cardinality(EntriesOf(p)) = 1
              /\ HasPeerRoom(p)
              /\ CountIn(events[p], "matched") = 1
        /\ pool = <<>>

\* C2: once four peers have joined, their handlers' store steps interleaved in
\* any way and on any replicas, and all four handlers have returned, there are
\* two rooms of two peers each, the rooms are disjoint, and each of the four
\* peers is in one of them.
C2_FourConcurrentJoins ==
    (JoinHandlersDone /\ Cardinality(Joined) = 4) =>
        /\ Cardinality(RoomEntries) = 2
        /\ \A e1, e2 \in RoomEntries :
              e1 # e2 => Members(e1[2]) \cap Members(e2[2]) = {}
        /\ \A e \in RoomEntries : Cardinality(Members(e[2])) = 2
        /\ \A p \in Joined : \E e \in RoomEntries : p \in Members(e[2])

\* C3: pairing is FIFO by enqueue time.  With every peer joining once, a room's
\* members are two peers enqueued one right after the other, the older first,
\* and no peer still in the pool was enqueued before a paired peer.
C3_FifoPairing ==
    \A e \in RoomEntries :
        /\ EnqPos(e[2][2]) = EnqPos(e[2][1]) + 1
        /\ \A i \in 1..Len(pool) : EnqPos(pool[i]) > EnqPos(e[2][2])

\* C6: with no join handler in flight, every connected peer that has joined is
\* in the waiting pool or has been given a room.
C6_JoinedPeerWaitsOrIsPaired ==
    JoinHandlersDone =>
        \A p \in Joined : sock[p] = "open" => (InPool(p) \/ HasPeerRoom(p))

\* a socket whose disconnect handler has not yet removed it from the pool
NotCleanedUp(p) == sock[p] # "new" /\ dpc[p] \in {"idle", "lRem"}

\* C4: the waiting pool holds no identifier twice, and is no longer than the
\* number of connections that are not members of a room (a closed connection
\* counts until its disconnect handler's LREM has run); joins may be repeated.
C4_PoolDistinctAndBounded ==
    /\ \A i, j \in 1..Len(pool) : i # j => pool[i] # pool[j]
    /\ Len(pool) <= Cardinality({p \in Peers :
                        NotCleanedUp(p) /\ EntriesOf(p) = {}})

\* C5: every room has two distinct members, and no peer is a member of two rooms.
C5_RoomsOfTwoDistinctPeers ==
    /\ \A e \in RoomEntries : e[2][1] # e[2][2]
    /\ \A p \in Peers : Cardinality(EntriesOf(p)) <= 1

\* C7: a produce call that succeeds, made by a member of a two-peer room whose
\* other member is connected, delivers exactly one 'new-producer' with the new
\* producer's id to the other member and none to the caller.
C7_NewProducerReachesOther ==
    [][\A s, o \in Peers : \A pr \in producers' \ producers :
          (pr.by = s /\ PairedWith(s, o) /\ sock[o] = "open") =>
              /\ events'[o] = Append(events[o], <<"new-producer", pr.id>>)
              /\ events'[s] = events[s]]_vars

\* C8: when a member of a two-peer room has disconnected and its disconnect
\* handler completes, the other member, if connected, has received exactly one
\* 'peer-disconnected' more, on whichever replicas the two are.
C8_PeerDisconnectedReachesOther ==
    [][\A s, o \in Peers :
          (dpc[s] = "notify" /\ dpc'[s] = "done" /\ PairedWith(s, o)
             /\ sock[o] = "open") =>
              CountIn(events'[o], "peer-disconnected")
                  = CountIn(events[o], "peer-disconnected") + 1]_vars

\* C9: once a peer's disconnect handler has completed, no replica's transport
\* table holds a transport that peer created, so a lookup of its ids fails.
C9_TransportsReleasedOnDisconnect ==
    \A s \in Peers : dpc[s] = "done" =>
        \A r \in Replicas : \A t \in transports[r] : t.socketId # s

\* C10: a room is in the room table only while one of its members is still
\* connected: no room is left whose members' disconnects have all completed.
C10_RoomGoesWithLastMember ==
    \A e \in RoomEntries : \E m \in Members(e[2]) : dpc[m] # "done"

\* what the handlers answered and what the clients asked, by event name
Asked(s, name) == CountIn(requests[s], name)

Answered(s, name) == CountIn(replies[s], name)

EngineRequests == {"createWebRtcTransport", "connectTransport", "produce", "consume"}

\* C11: every getRouterRtpCapabilities request has received exactly one reply
\* (the capabilities, or a RoomNotFound error when the room is not on the
\* handling replica): a handler is one step, so asked and answered are equal.
C11_CapabilitiesAlwaysAnswered ==
    \A s \in Peers :
        Asked(s, "getRouterRtpCapabilities") = Answered(s, "getRouterRtpCapabilities")

\* C12: each createWebRtcTransport, connectTransport, produce and consume
\* request has received exactly one reply, whether the engine call succeeded
\* or threw.
C12_EngineFailureAnswered ==
    \A s \in Peers : \A name \in EngineRequests : Asked(s, name) = Answered(s, name)

\* the step is socket s's consume handler
ConsumeStepOf(s) ==
    /\ Len(requests'[s]) = Len(requests[s]) + 1
    /\ requests'[s][Len(requests'[s])] = <<"consume">>

\* C13: a consume creates a consumer only when the named room is on the
\* handling replica, the capabilities sent are compatible and the requester
\* owns a receive transport; when one of the three fails the request gets an
\* error answer and no consumer; a created consumer is paused and sits on a
\* receive transport of the requester.
C13_ConsumeOnlyWhenConsumable ==
    [][\A s \in Peers : ConsumeStepOf(s) =>
          LET r == host[s]
              roomName == consumeArgs'[2]
              compatible == consumeArgs'[4]
              owned == {t \in transports[r] : t.socketId = s /\ ~t.isProducer}
              consumable == roomName \in rooms[r] /\ compatible /\ owned # {}
              failed == /\ consumers' = consumers
                        /\ replies'[s] = Append(replies[s], <<"consume", "error">>)
              succeeded ==
                  \E c \in consumers' \ consumers :
                      /\ consumers' = consumers \cup {c}
                      /\ c.paused /\ c.by = s /\ c.producerId = consumeArgs'[3]
                      /\ \E t \in owned : t.id = c.transportId
                      /\ replies'[s] = Append(replies[s], <<"consume", c.id, c.kind>>)
          IN /\ consumeArgs'[1] = s
             /\ failed \/ succeeded
             /\ ~consumable => failed
             /\ succeeded => consumable]_vars

\* a consume has succeeded: its consumer exists, paused, for the requester
C13_Witness ==
    \E c \in consumers :
        /\ c.paused /\ consumeArgs # <<>> /\ consumeArgs[1] = c.by
        /\ Answered(c.by, "consume") >= 1

\* C14: a consumer whose id was named in a handled resume-consumer request is
\* active, not paused.
C14_ResumeMakesActive ==
    \A c \in consumers : c.id \in resumeRequests => ~c.paused

\* C15: a peer has at most one producer of each kind.
C15_OneProducerPerKind ==
    \A p1, p2 \in producers : (p1.by = p2.by /\ p1.kind = p2.kind) => p1 = p2

\* C19: once a peer's disconnect handler has completed and no join handler is
\* in flight, no replica's peerRooms map has an entry for that peer.
C19_NoEntryForDisconnectedPeer ==
    \A s \in Peers : (dpc[s] = "done" /\ JoinHandlersDone) => ~HasPeerRoom(s)

\* the room names client p was told in its 'matched' events
MatchedRooms(p) ==
    {events[p][i][2] : i \in {j \in 1..Len(events[p]) : events[p][j][1] = "matched"}}

\* C20: when the two peers of a pairing are on different replicas, the replica
\* of each matched peer has the room (and its router) named in the peer's
\* 'matched' event, and has the peer's entry in its peerRooms map.
C20_MatchedRoomKnownToOwnReplica ==
    \A p \in Peers : \A roomName \in MatchedRooms(p) :
        (sock[p] = "open" /\ host[roomName[1]] # host[roomName[2]]) =>
            /\ roomName \in rooms[host[p]]
            /\ peerRooms[host[p]][p] = roomName

\* the sockets replica r has accepted
Accepted(r) == {p \in Peers : host[p] = r}

StartupFailed(r) ==
    store[r].pub = "failed" \/ store[r].sub = "failed" \/ worker[r] = "failed"

\* C16: a replica that listens, or has accepted a connection, has both store
\* connections established and its worker created; a replica one of whose
\* startup steps failed does not listen and has accepted nothing.
C16_ListenOnlyAfterStartup ==
    \A r \in Replicas :
        /\ (listening[r] \/ Accepted(r) # {}) =>
               /\ store[r].pub = "ready" /\ store[r].sub = "ready"
               /\ worker[r] \in {"created", "died", "gone"}
        /\ StartupFailed(r) => (~listening[r] /\ Accepted(r) = {})

\* one replica serves a joined client while another's startup has failed
C16_Witness ==
    \E r1, r2 \in Replicas :
        /\ listening[r1] /\ \E p \in Accepted(r1) : joins[p] > 0
        /\ StartupFailed(r2) /\ ~listening[r2]

\* C17: from the 'died' event of its worker on, a replica processes no
\* signaling work: it accepts no connection, none of its join handlers moves,
\* and it creates no room, transport or producer.
C17_NoWorkAfterWorkerDied ==
    [][\A r \in Replicas : (worker[r] = "died" /\ worker'[r] = "died") =>
          /\ \A p \in Peers : host'[p] = r => host[p] = r
          /\ \A p \in Accepted(r) : jpc'[p] = jpc[p] /\ joins'[p] = joins[p]
          /\ rooms'[r] = rooms[r]
          /\ transports'[r] = transports[r]
          /\ \A pr \in producers' \ producers : pr.router[1] # r]_vars

\* client p's part of the negotiation is at rest: no event waits, no request
\* of its handshake is on its way to the server, no answer waits for it
AtRest(p) ==
    /\ seen[p] = Len(events[p])
    /\ Handled(p)
    /\ ~Replied(p)

\* p has a consumer of producer pr
Consumes(p, pr) == \E c \in consumers : c.by = p /\ c.producerId = pr.id

\* C18: two paired peers stay connected; once every join handler has returned
\* and both clients are at rest (nothing more will happen), each has its send
\* transport, its two producers and its receive transport, and consumes every
\* producer of the other.
C18_NegotiationCompletes ==
    \A p, o \in Peers :
        (/\ PairedWith(p, o) /\ sock[p] = "open" /\ sock[o] = "open"
         /\ JoinHandlersDone /\ AtRest(p) /\ AtRest(o)) =>
            /\ cpc[p] = "ready"
            /\ connectionState[p].sendTransport # None
            /\ connectionState[p].recvTransport # None
            /\ \A kind \in Kinds : \E pr \in producers : pr.by = p /\ pr.kind = kind
            /\ \A pr \in producers : pr.by = o => Consumes(p, pr)

\* the waiting pool without the entries of s
PoolWithout(list, s) == SelectSeq(list, LAMBDA x : x # s)

\* the step is one of socket s's disconnect handler (the socket closing, the
\* LREM, the notification)
DisconnectStepOf(s) == dpc'[s] # dpc[s]

\* C21: a step of a peer's disconnect handler leaves alone every other peer's
\* peerRooms entry on every replica, every other peer's transports, every
\* room (router) of every replica and the other peers' places in the waiting
\* pool; it answers or fails no request of another peer, and the only thing
\* it may send another peer is 'peer-disconnected'.
C21_DisconnectTouchesOnlyItsPeer ==
    [][\A s \in Peers : DisconnectStepOf(s) =>
          /\ \A r \in Replicas : \A o \in Peers \ {s} :
                 peerRooms'[r][o] = peerRooms[r][o]
          /\ \A r \in Replicas :
                 {t \in transports'[r] : t.socketId # s}
                     = {t \in transports[r] : t.socketId # s}
          /\ rooms' = rooms
          /\ producers' = producers
          /\ PoolWithout(pool', s) = PoolWithout(pool, s)
          /\ \A o \in Peers \ {s} :
                 /\ sock'[o] = sock[o] /\ sids'[o] = sids[o] /\ jpc'[o] = jpc[o]
                 /\ replies'[o] = replies[o]
                 /\ \/ events'[o] = events[o]
                    \/ events'[o] = Append(events[o], <<"peer-disconnected">>)]_vars

\* a paired peer that had created a transport has disconnected and its
\* handler has deleted its entry; its partner still has its entry and its
\* own transport
C21_Witness ==
    \E s, o \in Peers :
        /\ PairedWith(s, o) /\ dpc[s] = "done" /\ sock[o] = "open"
        /\ ~HasPeerRoom(s) /\ HasPeerRoom(o)
        /\ \E r \in Replicas : \E t, u \in transports[r] :
               t.socketId = s /\ u.socketId = o

\* the tab's current session was started by the user during a reconnect delay
UserSession ==
    /\ current # None
    /\ startedBy[current].by = "user" /\ startedBy[current].pending > 0

\* C22: a reconnect timer that fires never tears down a session the user
\* started while that timer was pending: the step in which a timer's
\* connect() runs does not close a socket made by a connect() the user
\* called during a reconnect delay.
C22_TimerSparesUserSession ==
    [][timers' < timers => ~(UserSession /\ sock'[current] = "closed")]_vars

====
